---- MODULE Spec2Model ----
(***************************************************************************)
(* Wanderlust: the travel-itinerary chat assistant of wanderlust.py.       *)
(*                                                                         *)
(* A text (a Python str) is a sequence of chunks.  The characters typed by *)
(* the user are one chunk each, so that strip() and lower() are computed   *)
(* character by character; a literal of the program (a prompt, a banner, a *)
(* separator) is one chunk holding its words.  The empty string is << >>.  *)
(* An Optional value is a sequence of length 0 (None) or 1 (the value).    *)
(***************************************************************************)
EXTENDS Integers, Sequences, FiniteSets, TLC

VARIABLES
    agent_state,   \* gr.State: None, or the dict handle_user_message keeps
    chatbot,       \* the Gradio history: a list of [user_msg, assistant_msg]
    call,          \* the invocation that produced this state (op, user_input)
    branch,        \* the case of the handler that ran (its "---" print line)
    nodes,         \* the graph nodes the last invocation ran, in order
    requests,      \* the external requests of the last invocation and their outcomes, in order
    stored,        \* number of itineraries stored since the last Start Over
    node_input,    \* the AgentState a graph node is called on by itself, or None
    node_output    \* that call: the node, the outcome of its request, what it returned

session_vars == <<agent_state, chatbot, call, branch, nodes, requests, stored>>
node_vars == <<node_input, node_output>>
vars == <<session_vars, node_vars>>

None == << >>
Some(x) == <<x>>

\* ------------------------------------------------------------------ text
Whitespace == {" ", "\t", "\n", "\r"}

\* str.lower() on the upper-case letters the texts of this model use
UpperToLower ==
    [c \in {"S", "T", "A", "R", "P"} |->
        CASE c = "S" -> "s" [] c = "T" -> "t" [] c = "A" -> "a"
          [] c = "R" -> "r" [] c = "P" -> "p"]

lower(s) ==
    [i \in 1..Len(s) |-> IF s[i] \in DOMAIN UpperToLower THEN UpperToLower[s[i]] ELSE s[i]]

RECURSIVE lstrip(_)
lstrip(s) ==
    IF s = << >> THEN << >>
    ELSE IF Head(s) \in Whitespace THEN lstrip(Tail(s)) ELSE s

RECURSIVE rstrip(_)
rstrip(s) ==
    IF s = << >> THEN << >>
    ELSE IF s[Len(s)] \in Whitespace THEN rstrip(SubSeq(s, 1, Len(s) - 1)) ELSE s

strip(s) == rstrip(lstrip(s))

\* Python truthiness of an Optional[str]: None and "" are false
Truthy(opt) == opt /= None /\ opt[1] /= << >>

\* str(x) of an Optional[str], as an f-string formats it
NoneText == <<"None">>
Format(opt) == IF opt = None THEN NoneText ELSE opt[1]

RECURSIVE Join(_, _)
Join(sep, texts) ==
    IF texts = << >> THEN << >>
    ELSE IF Len(texts) = 1 THEN texts[1]
    ELSE texts[1] \o sep \o Join(sep, Tail(texts))

Contains(s, sub) ==
    \E i \in 1..(Len(s) - Len(sub) + 1) : SubSeq(s, i, i + Len(sub) - 1) = sub

StartsWith(s, prefix) ==
    Len(s) >= Len(prefix) /\ SubSeq(s, 1, Len(prefix)) = prefix

EndsWith(s, suffix) ==
    Len(s) >= Len(suffix) /\ SubSeq(s, Len(s) - Len(suffix) + 1, Len(s)) = suffix

\* ------------------------------------------------------------- constants
ORDERED_FIELDS == <<"destination", "budget", "activities", "duration", "accommodation">>

QUESTIONS_MAP ==
    [f \in {"destination", "budget", "activities", "duration", "accommodation"} |->
        CASE f = "destination" -> <<"Where would you like to travel?">>
          [] f = "budget" -> <<"What is your budget for this trip?">>
          [] f = "activities" -> <<"What kind of activities do you prefer?">>
          [] f = "duration" -> <<"How many days do you plan to stay?">>
          [] f = "accommodation" -> <<"Do you prefer hotels, hostels, or Airbnbs?">>]

INITIAL_MESSAGE == <<"Welcome! Type START to begin planning your travel itinerary.">>
START_CONFIRMATION == <<"Great! Let's plan your trip. ">> \o QUESTIONS_MAP[ORDERED_FIELDS[1]]
RESTART_MESSAGE == <<"Restarted! Type START to begin again.">>
INVALID_START_MESSAGE == <<"Please type START to begin the travel itinerary process.">>
ITINERARY_READY_MESSAGE == <<"Your travel itinerary is ready!">>
ALREADY_GENERATED_MESSAGE ==
    <<"Itinerary generated. Please click 'Start Over' to plan a new trip.">>
UNEXPECTED_STATE_MESSAGE == <<"Something went wrong. Please type START to begin.">>
NO_QUESTIONS_MESSAGE == <<"Something went wrong, no more questions to ask.">>
NO_RESPONSE_MESSAGE == <<"Error: No response.">>
START_COMMAND == <<"s", "t", "a", "r", "t">>

AIMessage(content) == [type |-> "ai", content |-> content]
HumanMessage(content) == [type |-> "human", content |-> content]

\* a dict update: the keys of upd overwrite those of d
Update(d, upd) ==
    [k \in DOMAIN d \cup DOMAIN upd |-> IF k \in DOMAIN upd THEN upd[k] ELSE d[k]]

EmptyDict == [k \in {} |-> << >>]

\* dict.get(key, default)
Get(d, key, default) == IF key \in DOMAIN d THEN d[key] ELSE default

\* ------------------------------------------------------------ graph nodes
\* a variant that stores the answer in lower case, like the START test
process_user_input_lowercased(state) ==
    LET last_message == state.messages[Len(state.messages)]
        missing_fields == Get(state, "missing_fields", << >>)
        user_info == Get(state, "user_info", EmptyDict)
    IN  IF last_message.type /= "human" \/ missing_fields = << >> THEN EmptyDict
        ELSE [user_info |-> Update(user_info,
                                   [k \in {missing_fields[1]} |->
                                        lower(strip(last_message.content))]),
              missing_fields |-> Tail(missing_fields)]

\* a variant that drops the last missing field instead of the first
process_user_input_pops_last(state) ==
    LET last_message == state.messages[Len(state.messages)]
        missing_fields == Get(state, "missing_fields", << >>)
        user_info == Get(state, "user_info", EmptyDict)
    IN  IF last_message.type /= "human" \/ missing_fields = << >> THEN EmptyDict
        ELSE [user_info |-> Update(user_info,
                                   [k \in {missing_fields[1]} |->
                                        strip(last_message.content)]),
              missing_fields |-> SubSeq(missing_fields, 1, Len(missing_fields) - 1)]

\* a variant that keeps the answer as typed, without strip()
process_user_input_verbatim(state) ==
    LET last_message == state.messages[Len(state.messages)]
        missing_fields == Get(state, "missing_fields", << >>)
        user_info == Get(state, "user_info", EmptyDict)
    IN  IF last_message.type /= "human" \/ missing_fields = << >> THEN EmptyDict
        ELSE [user_info |-> Update(user_info,
                                   [k \in {missing_fields[1]} |-> last_message.content]),
              missing_fields |-> Tail(missing_fields)]

process_user_input(state) ==
    LET last_message == state.messages[Len(state.messages)]
        user_response == strip(last_message.content)
        missing_fields == Get(state, "missing_fields", << >>)
        user_info == Get(state, "user_info", EmptyDict)
    IN  IF last_message.type /= "human" THEN EmptyDict
        ELSE IF missing_fields = << >> THEN EmptyDict
        ELSE LET field_to_update == missing_fields[1]
             IN  [user_info |-> Update(user_info,
                                       [k \in {field_to_update} |-> user_response]),
                  missing_fields |-> Tail(missing_fields)]

\* a variant that asks for the last missing field instead of the first
ask_next_question_last(state) ==
    LET missing_fields == Get(state, "missing_fields", << >>)
    IN  IF missing_fields = << >>
        THEN [messages |-> Append(state.messages, AIMessage(NO_QUESTIONS_MESSAGE))]
        ELSE [messages |-> Append(state.messages,
                                  AIMessage(QUESTIONS_MAP[missing_fields[Len(missing_fields)]]))]

ask_next_question(state) ==
    LET missing_fields == Get(state, "missing_fields", << >>)
    IN  IF missing_fields = << >>
        THEN [messages |-> Append(state.messages, AIMessage(NO_QUESTIONS_MESSAGE))]
        ELSE [messages |-> Append(state.messages,
                                  AIMessage(QUESTIONS_MAP[missing_fields[1]]))]

\* user_info.get(key) is truthy: the key is there and its text is not ""
Present(user_info, key) == key \in DOMAIN user_info /\ user_info[key] /= << >>

\* a variant that puts the budget clause before the duration clause
search_query_budget_first(user_info) ==
    LET query_parts ==
            << <<"Travel itinerary ideas for ">>
                   \o Get(user_info, "destination", <<"anywhere">>) >>
            \o (IF Present(user_info, "budget")
                THEN << <<"User's budget is described as: '">>
                            \o user_info["budget"] \o <<"'.">> >>
                ELSE << >>)
            \o (IF Present(user_info, "duration")
                THEN << <<"for about ">> \o user_info["duration"] \o <<" days.">> >>
                ELSE << >>)
            \o (IF Present(user_info, "activities")
                THEN << <<"User is looking for activities like: '">>
                            \o user_info["activities"] \o <<"'.">> >>
                ELSE << >>)
            \o (IF Present(user_info, "accommodation")
                THEN << <<"User's accommodation preference is: '">>
                            \o user_info["accommodation"] \o <<"'.">> >>
                ELSE << >>)
    IN  Join(<<" ">>, query_parts)

search_query(user_info) ==
    LET query_parts ==
            << <<"Travel itinerary ideas for ">>
                   \o Get(user_info, "destination", <<"anywhere">>) >>
            \o (IF Present(user_info, "duration")
                THEN << <<"for about ">> \o user_info["duration"] \o <<" days.">> >>
                ELSE << >>)
            \o (IF Present(user_info, "budget")
                THEN << <<"User's budget is described as: '">>
                            \o user_info["budget"] \o <<"'.">> >>
                ELSE << >>)
            \o (IF Present(user_info, "activities")
                THEN << <<"User is looking for activities like: '">>
                            \o user_info["activities"] \o <<"'.">> >>
                ELSE << >>)
            \o (IF Present(user_info, "accommodation")
                THEN << <<"User's accommodation preference is: '">>
                            \o user_info["accommodation"] \o <<"'.">> >>
                ELSE << >>)
    IN  Join(<<" ">>, query_parts)

\* getattr(doc, 'page_content', str(doc))
DocText(doc) == IF doc.page_content /= None THEN doc.page_content[1] ELSE doc.str

\* a variant that looks for 'result' before 'answer'
normalize_results_result_first(results) ==
    IF results.kind = "list"
    THEN Join(<<"\n\n">>, [i \in 1..Len(results.docs) |-> DocText(results.docs[i])])
    ELSE IF results.kind = "dict" /\ results.result /= None THEN results.result[1]
    ELSE IF results.kind = "dict" /\ results.answer /= None THEN results.answer[1]
    ELSE results.str

\* the shapes search_tool.invoke can return, flattened to one text
normalize_results(results) ==
    IF results.kind = "list"
    THEN Join(<<"\n\n">>, [i \in 1..Len(results.docs) |-> DocText(results.docs[i])])
    ELSE IF results.kind = "dict" /\ results.answer /= None THEN results.answer[1]
    ELSE IF results.kind = "dict" /\ results.result /= None THEN results.result[1]
    ELSE results.str

SEARCH_FAILED_PREFIX == <<"Search failed or timed out. Details: ">>

\* a variant whose failure text drops the error's description
run_search_no_details(state, results) ==
    IF results.kind = "raise"
    THEN [search_results |-> Some(SEARCH_FAILED_PREFIX)]
    ELSE [search_results |-> Some(normalize_results(results))]

run_search(state, results) ==
    IF results.kind = "raise"
    THEN [search_results |-> Some(SEARCH_FAILED_PREFIX \o results.error)]
    ELSE [search_results |-> Some(normalize_results(results))]

NOT_SPECIFIED == <<"Not specified">>
NO_SEARCH_RESULTS == <<"No search results available.">>

PROMPT_SEARCH_HEADER == <<"' Your Task: ... Supporting Search Results: ">>
PROMPT_FOOTER == <<" Generate the Itinerary:">>

\* the f-string of generate_itinerary: the fixed instructions are one chunk
\* each, the embedded values are the texts themselves
itinerary_prompt(state) ==
    LET user_info == state.user_info
        search_results == IF "search_results" \in DOMAIN state
                          THEN Format(state.search_results)
                          ELSE NO_SEARCH_RESULTS
    IN  <<"You are an expert travel planner. NOTE :- Do not go over the user budget. Destination: ">>
        \o Get(user_info, "destination", NOT_SPECIFIED)
        \o <<" Duration: ">> \o Get(user_info, "duration", NOT_SPECIFIED)
        \o <<" days Budget Description: '">> \o Get(user_info, "budget", NOT_SPECIFIED)
        \o <<"' Preferred Activities Description: '">>
        \o Get(user_info, "activities", NOT_SPECIFIED)
        \o <<"' Preferred Accommodation Description: '">>
        \o Get(user_info, "accommodation", NOT_SPECIFIED)
        \o PROMPT_SEARCH_HEADER
        \o search_results
        \o PROMPT_FOOTER

GENERATION_FAILED_PREFIX ==
    <<"Sorry, I encountered an error while generating the itinerary. Details: ">>

\* getattr(response, 'content', str(response))
ResponseText(response) ==
    IF response.content /= None THEN response.content[1] ELSE response.str

\* a variant whose failure branch leaves the itinerary key out of its update
generate_itinerary_keeps_old(state, response) ==
    IF response.kind = "raise"
    THEN [messages |-> Append(Get(state, "messages", << >>),
                              AIMessage(GENERATION_FAILED_PREFIX \o response.error))]
    ELSE LET itinerary_content == ResponseText(response)
         IN  [itinerary |-> Some(itinerary_content),
              messages |-> Append(Get(state, "messages", << >>),
                                  AIMessage(ITINERARY_READY_MESSAGE \o <<"\n\n">>
                                            \o itinerary_content))]

\* a variant that stores the itinerary with the banner in front
generate_itinerary_banner_stored(state, response) ==
    IF response.kind = "raise"
    THEN [itinerary |-> None,
          messages |-> Append(Get(state, "messages", << >>),
                              AIMessage(GENERATION_FAILED_PREFIX \o response.error))]
    ELSE LET final_text == ITINERARY_READY_MESSAGE \o <<"\n\n">> \o ResponseText(response)
         IN  [itinerary |-> Some(final_text),
              messages |-> Append(Get(state, "messages", << >>), AIMessage(final_text))]

generate_itinerary(state, response) ==
    IF response.kind = "raise"
    THEN [itinerary |-> None,
          messages |-> Append(Get(state, "messages", << >>),
                              AIMessage(GENERATION_FAILED_PREFIX \o response.error))]
    ELSE LET itinerary_content == ResponseText(response)
         IN  [itinerary |-> Some(itinerary_content),
              messages |-> Append(Get(state, "messages", << >>),
                                  AIMessage(ITINERARY_READY_MESSAGE \o <<"\n\n">>
                                            \o itinerary_content))]

\* a variant that always proceeds to the search
should_ask_question_or_search_always(state) == "run_search"

\* a variant with the two decisions swapped
should_ask_question_or_search_swapped(state) ==
    IF Get(state, "missing_fields", << >>) = << >> THEN "ask_next_question" ELSE "run_search"

should_ask_question_or_search(state) ==
    IF Get(state, "missing_fields", << >>) = << >> THEN "run_search" ELSE "ask_next_question"

\* one exchange with an external capability: what was sent, what came back
SearchRequest(query, results) ==
    [capability |-> "search", argument |-> query, outcome |-> results]
CompletionRequest(prompt, response) ==
    [capability |-> "completion", argument |-> prompt, outcome |-> response]

\* travel_agent_app.invoke: the compiled graph, entry process_user_input,
\* then ask_next_question -> END or run_search -> generate_itinerary -> END
travel_agent_app(graph_input_state, results, response) ==
    LET s1 == Update(graph_input_state, process_user_input(graph_input_state))
    IN  IF should_ask_question_or_search(s1) = "ask_next_question"
        THEN [final_state |-> Update(s1, ask_next_question(s1)),
              nodes |-> <<"process_user_input", "ask_next_question">>,
              requests |-> << >>]
        ELSE LET s2 == Update(s1, run_search(s1, results))
                 s3 == Update(s2, generate_itinerary(s2, response))
             IN  [final_state |-> s3,
                  nodes |-> <<"process_user_input", "run_search", "generate_itinerary">>,
                  requests |-> <<SearchRequest(search_query(s1.user_info), results),
                                 CompletionRequest(itinerary_prompt(s2), response)>>]

\* ------------------------------------------------------- Gradio handlers
InitialState ==
    [messages |-> <<AIMessage(INITIAL_MESSAGE)>>,
     user_info |-> EmptyDict,
     missing_fields |-> << >>,
     search_results |-> None,
     itinerary |-> None]

Turn(user_msg, assistant_msg) == [user |-> user_msg, bot |-> assistant_msg]

\* a variant of the START case that forgets to reset user_info
ReceivedStart_keeps_answers(history, current_state_dict) ==
    [history |-> Append(history, Turn(None, START_CONFIRMATION)),
     state |-> Update(current_state_dict,
                      [missing_fields |-> ORDERED_FIELDS,
                       messages |-> <<AIMessage(START_CONFIRMATION)>>]),
     branch |-> "Received START", nodes |-> << >>, requests |-> << >>]

\* the [START] case of handle_user_message
ReceivedStart(history, current_state_dict) ==
    [history |-> Append(history, Turn(None, START_CONFIRMATION)),
     state |-> Update(current_state_dict,
                      [missing_fields |-> ORDERED_FIELDS,
                       user_info |-> EmptyDict,
                       messages |-> <<AIMessage(START_CONFIRMATION)>>]),
     branch |-> "Received START", nodes |-> << >>, requests |-> << >>]

\* a variant that takes the first text as the destination without a start
WaitingForStart_binds(user_input, history, current_state_dict) ==
    [history |-> Append(history, Turn(Some(user_input), QUESTIONS_MAP[ORDERED_FIELDS[2]])),
     state |-> Update(current_state_dict,
                      [messages |-> current_state_dict.messages
                                    \o <<HumanMessage(user_input),
                                         AIMessage(QUESTIONS_MAP[ORDERED_FIELDS[2]])>>,
                       user_info |-> [k \in {ORDERED_FIELDS[1]} |-> strip(user_input)],
                       missing_fields |-> Tail(ORDERED_FIELDS)]),
     branch |-> "Waiting for START", nodes |-> << >>, requests |-> << >>]

WaitingForStart(user_input, history, current_state_dict) ==
    [history |-> Append(history, Turn(Some(user_input), INVALID_START_MESSAGE)),
     state |-> Update(current_state_dict,
                      [messages |-> current_state_dict.messages
                                    \o <<HumanMessage(user_input),
                                         AIMessage(INVALID_START_MESSAGE)>>]),
     branch |-> "Waiting for START", nodes |-> << >>, requests |-> << >>]

AlreadyGenerated(user_input, history, current_state_dict) ==
    [history |-> Append(history, Turn(Some(user_input), ALREADY_GENERATED_MESSAGE)),
     state |-> current_state_dict,
     branch |-> "Itinerary already generated", nodes |-> << >>, requests |-> << >>]

InvokingGraph(user_input, history, current_state_dict, results, response) ==
    LET current_messages ==
            Append(Get(current_state_dict, "messages", << >>), HumanMessage(user_input))
        with_message == Update(current_state_dict, [messages |-> current_messages])
        graph_input_state ==
            [messages |-> Get(with_message, "messages", << >>),
             user_info |-> Get(with_message, "user_info", EmptyDict),
             missing_fields |-> Get(with_message, "missing_fields", << >>),
             search_results |-> Get(with_message, "search_results", None),
             itinerary |-> Get(with_message, "itinerary", None)]
        run == travel_agent_app(graph_input_state, results, response)
        final_state == run.final_state
        last == final_state.messages[Len(final_state.messages)]
        ai_response == IF final_state.messages /= << >> /\ last.type = "ai"
                       THEN last.content
                       ELSE NO_RESPONSE_MESSAGE
    IN  [history |-> Append(history, Turn(Some(user_input), ai_response)),
         state |-> Update(with_message, final_state),
         branch |-> "Invoking Graph", nodes |-> run.nodes, requests |-> run.requests]

UnexpectedState(user_input, history) ==
    [history |-> Append(history, Turn(Some(user_input), UNEXPECTED_STATE_MESSAGE)),
     state |-> InitialState,
     branch |-> "Unexpected State", nodes |-> << >>, requests |-> << >>]

\* a variant without the "Waiting for START" case
handle_user_message_no_waiting(user_input, history, state_in, results, response) ==
    LET user_input_cleaned == lower(strip(user_input))
        current_state_dict == IF state_in = None THEN InitialState ELSE state_in[1]
        missing_fields == Get(current_state_dict, "missing_fields", << >>)
        itinerary == Get(current_state_dict, "itinerary", None)
    IN  IF user_input_cleaned = START_COMMAND /\ missing_fields = << >>
        THEN ReceivedStart(history, current_state_dict)
        ELSE IF missing_fields /= << >> \/ Truthy(itinerary)
        THEN IF Truthy(itinerary) /\ missing_fields = << >>
             THEN AlreadyGenerated(user_input, history, current_state_dict)
             ELSE InvokingGraph(user_input, history, current_state_dict, results, response)
        ELSE UnexpectedState(user_input, history)

\* a variant whose START case lacks the "not already started" test
handle_user_message_restarts(user_input, history, state_in, results, response) ==
    LET user_input_cleaned == lower(strip(user_input))
        current_state_dict == IF state_in = None THEN InitialState ELSE state_in[1]
        missing_fields == Get(current_state_dict, "missing_fields", << >>)
    IN  IF user_input_cleaned = START_COMMAND
        THEN ReceivedStart(history, current_state_dict)
        ELSE IF missing_fields = << >>
        THEN WaitingForStart(user_input, history, current_state_dict)
        ELSE InvokingGraph(user_input, history, current_state_dict, results, response)

handle_user_message(user_input, history, state_in, results, response) ==
    LET user_input_cleaned == lower(strip(user_input))
        current_state_dict == IF state_in = None THEN InitialState ELSE state_in[1]
        missing_fields == Get(current_state_dict, "missing_fields", << >>)
        itinerary == Get(current_state_dict, "itinerary", None)
    IN  IF user_input_cleaned = START_COMMAND /\ missing_fields = << >>
        THEN ReceivedStart(history, current_state_dict)
        ELSE IF missing_fields = << >> /\ user_input_cleaned /= START_COMMAND
        THEN WaitingForStart(user_input, history, current_state_dict)
        ELSE IF missing_fields /= << >> \/ Truthy(itinerary)
        THEN IF Truthy(itinerary) /\ missing_fields = << >>
             THEN AlreadyGenerated(user_input, history, current_state_dict)
             ELSE InvokingGraph(user_input, history, current_state_dict, results, response)
        ELSE UnexpectedState(user_input, history)

\* a variant that forgets to clear the stored itinerary
start_over_keeps_itinerary ==
    [history |-> <<Turn(None, RESTART_MESSAGE)>>,
     state |-> [messages |-> <<AIMessage(RESTART_MESSAGE)>>,
                user_info |-> EmptyDict,
                missing_fields |-> << >>,
                search_results |-> None,
                itinerary |-> IF agent_state = None THEN None ELSE agent_state[1].itinerary]]

start_over ==
    [history |-> <<Turn(None, RESTART_MESSAGE)>>,
     state |-> [messages |-> <<AIMessage(RESTART_MESSAGE)>>,
                user_info |-> EmptyDict,
                missing_fields |-> << >>,
                search_results |-> None,
                itinerary |-> None]]

\* ------------------------------------------------------------ environment
\* what the user may type
UserTexts ==
    { <<"s", "t", "a", "r", "t">>,
      <<" ", "S", "t", "a", "r", "t", " ">>,
      <<" ", "5", " ">> }

Doc(page_content, str) == [page_content |-> page_content, str |-> str]

SearchResult(kind, docs, answer, result, str, error) ==
    [kind |-> kind, docs |-> docs, answer |-> answer, result |-> result,
     str |-> str, error |-> error]

\* what search_tool.invoke may do
SearchOutcomes ==
    { SearchResult("list", <<Doc(Some(<<"museums">>), <<"Document(museums)">>),
                             Doc(None, <<"{'url': 'u', 'content': 'cafes'}">>)>>,
                   None, None, <<"[...]">>, << >>),
      SearchResult("list", << >>, None, None, <<"[]">>, << >>),
      SearchResult("dict", << >>, Some(<<"beaches">>), None, <<"{'answer': 'beaches'}">>, << >>),
      SearchResult("raise", << >>, None, None, << >>, <<"connection timed out">>) }

Response(kind, content, str, error) ==
    [kind |-> kind, content |-> content, str |-> str, error |-> error]

\* what llm.invoke may do
CompletionOutcomes ==
    { Response("message", Some(<<"Day 1: arrive.">>), <<"AIMessage(...)">>, << >>),
      Response("raise", None, << >>, <<"rate limit exceeded">>) }

\* ------------------------------------------------------------ the machine
Launched ==
    /\ agent_state = None
    /\ chatbot = <<Turn(None, INITIAL_MESSAGE)>>
    /\ call = [op |-> "launch", user_input |-> None]
    /\ branch = "launch"
    /\ nodes = << >>
    /\ requests = << >>
    /\ stored = 0

\* no node has been called by itself
NoCall == [node |-> "none", outcome |-> None, request |-> None, returned |-> None, calls |-> 0]

Init ==
    /\ Launched
    /\ node_input = None
    /\ node_output = NoCall

Submit(texts, searches, completions, limit) ==
    /\ Len(chatbot) < limit
    /\ \E user_input \in texts, results \in searches, response \in completions :
          LET out == handle_user_message(user_input, chatbot, agent_state, results, response)
          IN  /\ agent_state' = Some(out.state)
              /\ chatbot' = out.history
              /\ call' = [op |-> "handle_user_message", user_input |-> Some(user_input)]
              /\ branch' = out.branch
              /\ nodes' = out.nodes
              /\ requests' = out.requests
              /\ stored' = IF out.nodes /= << >>
                              /\ out.nodes[Len(out.nodes)] = "generate_itinerary"
                              /\ out.state.itinerary /= None
                           THEN stored + 1
                           ELSE stored
    /\ UNCHANGED node_vars

StartOver ==
    /\ agent_state' = Some(start_over.state)
    /\ chatbot' = start_over.history
    /\ call' = [op |-> "start_over", user_input |-> None]
    /\ branch' = "Starting Over"
    /\ nodes' = << >>
    /\ requests' = << >>
    /\ stored' = 0
    /\ UNCHANGED node_vars

MaxHistory == 8

HandleUserMessage == Submit(UserTexts, SearchOutcomes, CompletionOutcomes, MaxHistory)

Next == HandleUserMessage \/ StartOver

Spec == Init /\ [][Next]_vars

\* Two collection rounds in a row: fewer texts and outcomes, a longer history
RoundTexts == { <<"s", "t", "a", "r", "t">>, <<" ", "5", " ">> }

RoundSearches == { r \in SearchOutcomes : r.kind = "dict" }

MaxRoundsHistory == 13

HandleRounds == Submit(RoundTexts, RoundSearches, CompletionOutcomes, MaxRoundsHistory)

NextRounds == HandleRounds \/ StartOver

SpecRounds == Init /\ [][NextRounds]_vars

\* -------------------------------------------------- the nodes by themselves
\* Each graph node is a function of the AgentState it is given (and of the
\* outcome of its one external request).  Here the state is drawn from a
\* bounded set, wider than what handle_user_message passes to the graph, and
\* the nodes are called on it one at a time.
MaxDocs == 2
MaxCalls == 2

FieldSet == {ORDERED_FIELDS[i] : i \in 1..Len(ORDERED_FIELDS)}

\* the last thing the user typed
NodeTexts == { << >>, <<" ", "5", " ">>, <<"P">>, <<" ">> }

\* what user_info may hold for a field: "" (a blank answer, stripped) or a text
AnswerTexts == { << >>, <<"5">> }

UserInfos == UNION { [D -> AnswerTexts] : D \in SUBSET FieldSet }

NodeState(messages, user_info, missing_fields, search_results) ==
    [messages |-> messages, user_info |-> user_info,
     missing_fields |-> missing_fields, search_results |-> search_results,
     itinerary |-> None]

WithoutKey(state, key) == [k \in DOMAIN state \ {key} |-> state[k]]

Answered(n) == [f \in {ORDERED_FIELDS[i] : i \in 1..n} |-> <<"5">>]

\* a session at every point of a collection round, the user's text last (or,
\* once, the assistant's question last)
CollectorStates ==
    { NodeState(<<AIMessage(START_CONFIRMATION), HumanMessage(t)>>, Answered(n),
                SubSeq(ORDERED_FIELDS, n + 1, Len(ORDERED_FIELDS)), None) :
          t \in NodeTexts, n \in 0..Len(ORDERED_FIELDS) }
    \cup { NodeState(<<AIMessage(START_CONFIRMATION)>>, EmptyDict, ORDERED_FIELDS, None) }

\* every subset of the answers, blank ones included
SearchStates ==
    { NodeState(<<AIMessage(START_CONFIRMATION), HumanMessage(<<"5">>)>>, u, << >>, None) :
          u \in UserInfos }

\* the search text a text, "", None, or its key missing
SynthesisStates ==
    LET base(sr) == NodeState(<<AIMessage(START_CONFIRMATION), HumanMessage(<<"5">>)>>,
                              Answered(Len(ORDERED_FIELDS)), << >>, sr)
    IN  { base(sr) : sr \in {None, Some(<< >>), Some(<<"beaches">>)} }
        \cup { WithoutKey(base(None), "search_results") }

NodeStates == CollectorStates \cup SearchStates \cup SynthesisStates

Docs == { Doc(Some(<<"museums">>), <<"Document(museums)">>),
          Doc(None, <<"{'url': 'u', 'content': 'cafes'}">>) }

DocLists == UNION { [1..n -> Docs] : n \in 0..MaxDocs }

\* every shape search_tool.invoke may return, and its failure
NodeSearchOutcomes ==
    { SearchResult("list", docs, None, None, <<"[...]">>, << >>) : docs \in DocLists }
    \cup { SearchResult("dict", << >>, a, r, <<"{...}">>, << >>) :
               a \in {None, Some(<<"beaches">>)}, r \in {None, Some(<<"temples">>)} }
    \cup { SearchResult("other", << >>, None, None, <<"42">>, << >>),
           SearchResult("raise", << >>, None, None, << >>, <<"connection timed out">>) }

NodeResponses ==
    CompletionOutcomes
    \cup { Response("object", None, <<"Day 1: arrive. (no content attribute)">>, << >>) }

InitNodes ==
    /\ Launched
    /\ node_input \in NodeStates
    /\ node_output = NoCall

NodeCall(node, outcome, request, returned) ==
    /\ node_output.calls < MaxCalls
    /\ node_output' = [node |-> node, outcome |-> outcome, request |-> request,
                       returned |-> returned, calls |-> node_output.calls + 1]
    /\ UNCHANGED <<node_input, session_vars>>

CallProcessUserInput ==
    NodeCall("process_user_input", None, None, process_user_input(node_input))

CallRouter ==
    NodeCall("should_ask_question_or_search", None, None,
             should_ask_question_or_search(node_input))

CallAskNextQuestion ==
    NodeCall("ask_next_question", None, None, ask_next_question(node_input))

CallRunSearch ==
    \E results \in NodeSearchOutcomes :
        NodeCall("run_search", Some(results), Some(search_query(node_input.user_info)),
                 run_search(node_input, results))

CallGenerateItinerary ==
    \E response \in NodeResponses :
        NodeCall("generate_itinerary", Some(response), Some(itinerary_prompt(node_input)),
                 generate_itinerary(node_input, response))

NextNodes ==
    \/ CallProcessUserInput
    \/ CallRouter
    \/ CallAskNextQuestion
    \/ CallRunSearch
    \/ CallGenerateItinerary

SpecNodes == InitNodes /\ [][NextNodes]_vars

\* ------------------------------------------------------------ observations
Session == IF agent_state = None THEN InitialState ELSE agent_state[1]
Answers == Session.user_info
Pending == Session.missing_fields
SearchText == Session.search_results
Itinerary == Session.itinerary
Messages == Session.messages
Reply == chatbot[Len(chatbot)].bot

IsHuman(m) == m.type = "human"
\* the user texts recorded in a message list, in order
HumanTexts(messages) ==
    LET humans == SelectSeq(messages, IsHuman)
    IN  [i \in 1..Len(humans) |-> humans[i].content]

IsStart(user_input) == lower(strip(user_input)) = START_COMMAND

\* a start was accepted since the session was created or reset by Start Over
\* and no later start replaced the message list
StartAccepted == Messages[1] = AIMessage(START_CONFIRMATION)
AwaitingStart == Messages[1] \in {AIMessage(INITIAL_MESSAGE), AIMessage(RESTART_MESSAGE)}
Collecting == Pending /= << >>
Complete == Pending = << >> /\ SearchText /= None

\* the step is a call of handle_user_message
Handled == call'.op = "handle_user_message"
Input == call'.user_input[1]

NumFields == Len(ORDERED_FIELDS)

\* ------------------------------------------------------------------ claims

C2_CompleteIsTerminal ==
    [][(Complete /\ Handled) =>
          /\ Complete'
          /\ Answers' = Answers
          /\ Pending' = Pending
          /\ Itinerary' = Itinerary
          /\ Reply' = ALREADY_GENERATED_MESSAGE]_vars

\* C3: an accepted start leaves answers empty, pending the full field order,
\* and both the search text and the itinerary absent.
C3_StartClearsSession ==
    branch = "Received START" =>
        /\ Answers = EmptyDict
        /\ Pending = ORDERED_FIELDS
        /\ SearchText = None
        /\ Itinerary = None

\* C4: between two Start Over signals (or since the session was created) an
\* itinerary is stored at most once, whatever texts are typed.
C4_ItineraryStoredAtMostOnce == stored <= 1

\* C5: while collecting, an input of "start" is bound as the answer to the
\* field at the head of pending, pending advances by exactly one field, and
\* no answer collected before is cleared.
C5_StartWhileCollectingIsAnAnswer ==
    [][(Collecting /\ Handled /\ IsStart(Input)) =>
          /\ branch' = "Invoking Graph"
          /\ Pending' = Tail(Pending)
          /\ Head(Pending) \in DOMAIN Answers'
          /\ Answers'[Head(Pending)] = strip(Input)
          /\ \A f \in DOMAIN Answers :
                /\ f \in DOMAIN Answers'
                /\ f /= Head(Pending) => Answers'[f] = Answers[f]]_vars

C5_Witness ==
    /\ call.op = "handle_user_message"
    /\ IsStart(call.user_input[1])
    /\ branch = "Invoking Graph"
    /\ Pending = SubSeq(ORDERED_FIELDS, 3, NumFields)
    /\ DOMAIN Answers = {"destination", "budget"}
    /\ ~IsStart(Answers["destination"])
    /\ Answers["budget"] = strip(call.user_input[1])

\* C6: while awaiting the start, every input other than "start" leaves answers
\* and pending empty and is answered by the fixed start reminder.
C6_NonStartIsRejected ==
    [][(AwaitingStart /\ Handled /\ ~IsStart(Input)) =>
          /\ Answers' = Answers
          /\ Pending' = Pending
          /\ Answers' = EmptyDict
          /\ Pending' = << >>
          /\ AwaitingStart'
          /\ Reply' = INVALID_START_MESSAGE]_vars

C6_Witness ==
    /\ AwaitingStart
    /\ branch = "Waiting for START"
    /\ Len(chatbot) >= 3
    /\ chatbot[Len(chatbot) - 1].bot = INVALID_START_MESSAGE
    /\ Reply = INVALID_START_MESSAGE
    /\ Answers = EmptyDict
    /\ Pending = << >>

RestartedSession == Messages[1] = AIMessage(RESTART_MESSAGE)

\* C7: Start Over, in any state, leaves answers and pending empty, the search
\* text and the itinerary absent and the history holding only the restart
\* confirmation; the next "start" then sets pending to the full field order.
C7_StartOverResets ==
    [][/\ call'.op = "start_over" =>
              /\ Answers' = EmptyDict
              /\ Pending' = << >>
              /\ SearchText' = None
              /\ Itinerary' = None
              /\ Messages' = <<AIMessage(RESTART_MESSAGE)>>
              /\ chatbot' = <<Turn(None, RESTART_MESSAGE)>>
       /\ (RestartedSession /\ Handled /\ IsStart(Input)) =>
              /\ Pending' = ORDERED_FIELDS
              /\ Itinerary' = None]_vars

C7_Witness ==
    /\ branch = "Received START"
    /\ chatbot = <<Turn(None, RESTART_MESSAGE), Turn(None, START_CONFIRMATION)>>
    /\ Pending = ORDERED_FIELDS
    /\ Answers = EmptyDict

\* C8: the turn that supplies the last pending answer issues exactly one
\* search request and then exactly one completion request; when the
\* completion succeeds the reply is the banner followed by the completion
\* text and the stored itinerary is that text without the banner.
C8_LastAnswerRunsPipelineOnce ==
    [][(Len(Pending) = 1 /\ Handled) =>
          /\ Len(requests') = 2
          /\ requests'[1].capability = "search"
          /\ requests'[2].capability = "completion"
          /\ requests'[2].outcome.kind /= "raise" =>
                /\ StartsWith(Reply', ITINERARY_READY_MESSAGE)
                /\ Reply' = ITINERARY_READY_MESSAGE \o <<"\n\n">>
                            \o ResponseText(requests'[2].outcome)
                /\ Itinerary' = Some(ResponseText(requests'[2].outcome))]_vars

C8_Witness ==
    /\ branch = "Invoking Graph"
    /\ Pending = << >>
    /\ Len(requests) = 2
    /\ requests[2].outcome.kind = "message"
    /\ StartsWith(Reply, ITINERARY_READY_MESSAGE)
    /\ Itinerary = requests[2].outcome.content

\* C9: the accepted start emits the destination prompt and the reply to the
\* k-th answer of a round, k = 1..4, is the prompt of field k+1, whatever
\* the answers are.
C9_PromptsInCanonicalOrder ==
    [][Handled =>
          /\ branch' = "Received START" =>
                EndsWith(Reply', QUESTIONS_MAP[ORDERED_FIELDS[1]])
          /\ (StartAccepted /\ Len(HumanTexts(Messages)) + 1 < NumFields) =>
                Reply' = QUESTIONS_MAP[ORDERED_FIELDS[Len(HumanTexts(Messages)) + 2]]]_vars

C9_Witness ==
    /\ StartAccepted
    /\ branch = "Invoking Graph"
    /\ Len(HumanTexts(Messages)) = NumFields - 1
    /\ IsStart(HumanTexts(Messages)[1])
    /\ ~IsStart(HumanTexts(Messages)[2])
    /\ Reply = QUESTIONS_MAP["accommodation"]

\* C10: when the search raises, the stored search text contains the error's
\* description and the completion request is still issued in the same turn
\* with that text embedded in its prompt.
C10_SearchFailureIsRecovered ==
    (requests /= << >> /\ requests[1].outcome.kind = "raise") =>
        /\ branch = "Invoking Graph"
        /\ requests[1].capability = "search"
        /\ SearchText /= None
        /\ Contains(SearchText[1], requests[1].outcome.error)
        /\ Len(requests) = 2
        /\ requests[2].capability = "completion"
        /\ Contains(requests[2].argument, SearchText[1])
        /\ nodes = <<"process_user_input", "run_search", "generate_itinerary">>

C10_Witness ==
    /\ requests /= << >>
    /\ requests[1].outcome.kind = "raise"
    /\ requests[2].outcome.kind = "message"
    /\ SearchText = Some(SEARCH_FAILED_PREFIX \o requests[1].outcome.error)
    /\ Itinerary /= None

\* C11: when the completion raises, the itinerary is None after the turn, even
\* when an earlier round stored one, and the reply is the apology with the
\* error's description, not the "itinerary ready" banner.
C11_CompletionFailureLeavesNoItinerary ==
    (Len(requests) = 2 /\ requests[2].outcome.kind = "raise") =>
        /\ branch = "Invoking Graph"
        /\ requests[2].capability = "completion"
        /\ Itinerary = None
        /\ Reply = GENERATION_FAILED_PREFIX \o requests[2].outcome.error
        /\ Contains(Reply, requests[2].outcome.error)
        /\ ~StartsWith(Reply, ITINERARY_READY_MESSAGE)
        /\ Pending = << >>

\* a second round fails after the first one stored an itinerary
C11_Witness ==
    /\ Len(requests) = 2
    /\ requests[2].outcome.kind = "raise"
    /\ stored = 1
    /\ Itinerary = None
    /\ StartsWith(Reply, GENERATION_FAILED_PREFIX)

IsSuffix(s, t) == Len(s) <= Len(t) /\ s = SubSeq(t, Len(t) - Len(s) + 1, Len(t))

\* C12: in every reachable state pending is a suffix of the canonical field
\* order (possibly empty, possibly the whole order).
C12_PendingIsSuffix == IsSuffix(Pending, ORDERED_FIELDS)

C12_Witness ==
    /\ Pending = <<"duration", "accommodation">>
    /\ branch = "Invoking Graph"
    /\ DOMAIN Answers = {"destination", "budget", "activities"}

PendingSet == {Pending[i] : i \in 1..Len(Pending)}

\* C13: no field still in pending has an entry in answers; a field gains an
\* entry only in the step that removes it from pending, and a step adds an
\* entry for at most one field.
C13_AnswersOnlyForLeftFields ==
    [][/\ PendingSet' \cap DOMAIN Answers' = {}
       /\ Cardinality(DOMAIN Answers' \ DOMAIN Answers) <= 1
       /\ \A f \in DOMAIN Answers' \ DOMAIN Answers :
             f \in PendingSet /\ f \notin PendingSet']_vars

\* a start accepted after a finished round: the answers of that round are gone
C13_Witness ==
    /\ branch = "Received START"
    /\ SearchText /= None
    /\ Pending = ORDERED_FIELDS
    /\ Answers = EmptyDict

GraphRuns ==
    { << >>,
      <<"process_user_input", "ask_next_question">>,
      <<"process_user_input", "run_search", "generate_itinerary">> }

\* C16: a user message runs the graph at most once, along one of its two
\* paths to END; search and completion requests are issued only in the turn
\* in which the last pending field is consumed, never while awaiting the
\* start, in COMPLETE, or in a collecting turn that leaves fields pending.
C16_RequestsOnlyOnLastAnswer ==
    [][Handled =>
          /\ nodes' \in GraphRuns
          /\ (nodes' /= << >>) <=> (branch' = "Invoking Graph")
          /\ (requests' /= << >>) <=> (Len(Pending) = 1)
          /\ (requests' /= << >>) =>
                /\ nodes' = <<"process_user_input", "run_search", "generate_itinerary">>
                /\ Pending' = << >>
                /\ Len(requests') = 2
          /\ (AwaitingStart \/ Complete) => (requests' = << >> /\ nodes' = << >>)
          /\ (Collecting /\ Pending' /= << >>) =>
                (requests' = << >>
                 /\ nodes' = <<"process_user_input", "ask_next_question">>)]_vars

\* a text typed in COMPLETE issues no request
C16_Witness ==
    /\ Complete
    /\ call.op = "handle_user_message"
    /\ branch = "Waiting for START"
    /\ requests = << >>
    /\ nodes = << >>

\* C20: every call of handle_user_message is handled by the accepted start,
\* the wait for the start or the collecting case; the "unexpected state"
\* reset is never taken and the graph is never invoked with pending empty.
C20_FallbackNeverTaken ==
    [][Handled =>
          /\ branch' \in {"Received START", "Waiting for START", "Invoking Graph"}
          /\ Reply' /= UNEXPECTED_STATE_MESSAGE
          /\ branch' = "Invoking Graph" => Pending /= << >>]_vars

\* a text typed after a failed completion: nothing pending, no itinerary
C20_Witness ==
    /\ Complete
    /\ Itinerary = None
    /\ call.op = "handle_user_message"
    /\ branch = "Waiting for START"

\* --------------------------------------------- claims about the nodes alone
LastMessage == node_input.messages[Len(node_input.messages)]
NodeAfter == Update(node_input, node_output.returned)

\* what the Answer Collector does to answers and pending, where text is
\* what it keeps of the user's text
CollectorEffect(text) ==
    IF node_input.missing_fields /= << >>
    THEN LET field == node_input.missing_fields[1]
         IN  /\ DOMAIN NodeAfter.user_info = DOMAIN node_input.user_info \cup {field}
             /\ NodeAfter.user_info[field] = text
             /\ \A f \in DOMAIN node_input.user_info \ {field} :
                   NodeAfter.user_info[f] = node_input.user_info[f]
             /\ NodeAfter.missing_fields = Tail(node_input.missing_fields)
    ELSE /\ NodeAfter.user_info = node_input.user_info
         /\ NodeAfter.missing_fields = node_input.missing_fields
         /\ node_output.returned = EmptyDict

SearchSection(prompt) ==
    LET i == CHOOSE i \in 1..Len(prompt) : <<prompt[i]>> = PROMPT_SEARCH_HEADER
    IN  SubSeq(prompt, i + 1, Len(prompt) - Len(PROMPT_FOOTER))

\* C15: the completion prompt embeds 'No search results available.' when the
\* search text is absent (key missing or None) or empty, and the search text
\* itself otherwise.
C15_PlaceholderWhenAbsentOrEmpty ==
    node_output.node = "generate_itinerary" =>
        LET absent == \/ "search_results" \notin DOMAIN node_input
                      \/ node_input.search_results = None
                      \/ node_input.search_results[1] = << >>
        IN  SearchSection(node_output.request[1]) =
                IF absent THEN NO_SEARCH_RESULTS ELSE node_input.search_results[1]

\* the four optional clauses of the search query, in their order
QUERY_ORDER == <<"duration", "budget", "activities", "accommodation">>

ClauseOpening ==
    [f \in {"duration", "budget", "activities", "accommodation"} |->
        CASE f = "duration" -> "for about "
          [] f = "budget" -> "User's budget is described as: '"
          [] f = "activities" -> "User is looking for activities like: '"
          [] f = "accommodation" -> "User's accommodation preference is: '"]

ClauseClosing ==
    [f \in {"duration", "budget", "activities", "accommodation"} |->
        IF f = "duration" THEN " days." ELSE "'."]

Clause(f, text) == <<ClauseOpening[f]>> \o text \o <<ClauseClosing[f]>>

ClauseAt(query, f) == {i \in 1..Len(query) : query[i] = ClauseOpening[f]}

DestinationClause(user_info) ==
    <<"Travel itinerary ideas for ">> \o Get(user_info, "destination", <<"anywhere">>)

RECURSIVE SumLen(_, _, _)
SumLen(user_info, fields, n) ==
    IF n = 0 THEN 0
    ELSE SumLen(user_info, fields, n - 1)
         + (IF fields[n] \in DOMAIN user_info /\ user_info[fields[n]] /= << >>
            THEN 1 + Len(Clause(fields[n], user_info[fields[n]]))
            ELSE 0)

\* the query is the destination clause followed by exactly the clauses of
\* the fields for which has(f) holds, in the fixed order, nothing else
QueryShape(query, user_info, has(_)) ==
    /\ StartsWith(query, DestinationClause(user_info))
    /\ \A i \in 1..Len(QUERY_ORDER) :
          LET f == QUERY_ORDER[i]
          IN  /\ (ClauseAt(query, f) /= {}) <=> has(f)
              /\ Cardinality(ClauseAt(query, f)) <= 1
              /\ ClauseAt(query, f) /= {} =>
                    /\ Contains(query, <<" ">> \o Clause(f, user_info[f]))
                    /\ \A j \in 1..(i - 1), p \in ClauseAt(query, f) :
                          \A q \in ClauseAt(query, QUERY_ORDER[j]) : q < p
    /\ Len(query) = Len(DestinationClause(user_info))
                    + SumLen(user_info, QUERY_ORDER, Len(QUERY_ORDER))

HasEntry(f) == f \in DOMAIN node_input.user_info
HasText(f) == f \in DOMAIN node_input.user_info /\ node_input.user_info[f] /= << >>

ItemText(doc) == IF doc.page_content = None THEN doc.str ELSE doc.page_content[1]

RECURSIVE BlankLineJoined(_, _)
BlankLineJoined(docs, n) ==
    IF n = 0 THEN << >>
    ELSE IF n = 1 THEN ItemText(docs[1])
    ELSE BlankLineJoined(docs, n - 1) \o <<"\n\n">> \o ItemText(docs[n])

\* C18: a list result becomes its item texts with a blank line between them
\* ("" for an empty list), an object with 'answer' that field, an object with
\* 'result' and no 'answer' the 'result' field, anything else its str().
C18_ResultShapesNormalized ==
    (node_output.node = "run_search" /\ node_output.outcome[1].kind /= "raise") =>
        LET results == node_output.outcome[1]
            text == node_output.returned.search_results
        IN  /\ text /= None
            /\ results.kind = "list" =>
                  text[1] = BlankLineJoined(results.docs, Len(results.docs))
            /\ (results.kind = "dict" /\ results.answer /= None) =>
                  text[1] = results.answer[1]
            /\ (results.kind = "dict" /\ results.answer = None /\ results.result /= None) =>
                  text[1] = results.result[1]
            /\ (results.kind = "dict" /\ results.answer = None /\ results.result = None) =>
                  text[1] = results.str
            /\ results.kind = "other" => text[1] = results.str

\* an object with both fields gives 'answer'
C18_Witness ==
    /\ node_output.node = "run_search"
    /\ node_output.outcome[1].kind = "dict"
    /\ node_output.outcome[1].answer /= None
    /\ node_output.outcome[1].result /= None
    /\ node_output.returned.search_results = node_output.outcome[1].answer

IsRouterCall(output) == output.node = "should_ask_question_or_search"

\* C19: the Completion Router returns 'ask_next_question' if and only if
\* pending is non-empty and 'run_search' otherwise; it changes no session
\* field, and called again on the unchanged session it decides the same.
C19_RouterDecision ==
    [][IsRouterCall(node_output') =>
          /\ node_output'.returned \in {"ask_next_question", "run_search"}
          /\ (node_output'.returned = "ask_next_question")
                <=> (node_input.missing_fields /= << >>)
          /\ node_input' = node_input
          /\ IsRouterCall(node_output) => node_output'.returned = node_output.returned]_vars

\* the router called twice in a row with fields pending
C19_Witness ==
    /\ IsRouterCall(node_output)
    /\ node_output.calls = 2
    /\ node_input.missing_fields = <<"accommodation">>
    /\ node_output.returned = "ask_next_question"

====
